---- MODULE Spec2Model ----
(***************************************************************************)
(* Model of src/macos_tools/align_structures.py: extraction of CA points   *)
(* from PDB text (parse_pdb_coords), the Kabsch solver (kabsch_alignment), *)
(* the transform applier (apply_transformation), the orchestrator          *)
(* (align_structures) and the command-line entry point (__main__).         *)
(*                                                                         *)
(* Representation.                                                         *)
(*  - A file is a sequence of lines, a line a sequence of one-character    *)
(*    strings ending in "\n", with the columns of the PDB format: the      *)
(*    slices of the source (line[30:38], ...) are taken at the same        *)
(*    indices by Slice.                                                    *)
(*  - A coordinate is an integer number of thousandths (the PDB columns    *)
(*    carry three decimals). Numbers the code computes in floating point   *)
(*    are kept exact: a centroid, a translation and a transformed          *)
(*    coordinate are rationals num/den with den the number of points, and  *)
(*    an RMSD is the square root of a rational.                            *)
(*  - numpy.linalg.svd is modelled by its contract, over the 48 orthogonal *)
(*    matrices with integer entries (the signed permutation matrices).     *)
(***************************************************************************)
EXTENDS Integers, Sequences, FiniteSets, TLC

VARIABLES
    pc,             \* position of the run
    entry,          \* "cli": run as a script; "lib": align_structures called by an importing caller
    argv,           \* sys.argv[1:], or the arguments of the call
    fs,             \* the file system: path -> [exists, lines]
    output_pdb,     \* align_structures' output_pdb once derived
    mobile_coords,  \* numpy array of the mobile CA points
    mobile_res,     \* residue numbers of the mobile CA points
    ref_coords,     \* numpy array of the reference CA points
    ref_res,        \* residue numbers of the reference CA points
    svd,            \* U and Vt as numpy.linalg.svd returned them, in the runs of the solver alone
    R,              \* rotation returned by kabsch_alignment
    t,              \* translation returned by kabsch_alignment, [num, den]
    rmsd_before,    \* [num, den]: the square root of num/den
    rmsd_after,     \* [num, den]: the square root of num/den
    stdout,         \* what the run has printed
    exc,            \* the exception that left the core, "none" if none
    ret,            \* align_structures' return value, None until it returns
    proc            \* the process: "running", or "exit0", "exit1"

vars == <<pc, entry, argv, fs, output_pdb, mobile_coords, mobile_res, ref_coords,
          ref_res, svd, R, t, rmsd_before, rmsd_after, stdout, exc, ret, proc>>

(***************************************************************************)
(* Bounds of the model.                                                    *)
(***************************************************************************)
\* Longest mobile file of the orchestrator's runs, in lines.
MaxMobileLines == 3
\* Longest reference file of the orchestrator's runs, in lines.
MaxRefLines == 2
\* Longest file given to parse_pdb_coords and apply_transformation alone, in lines.
MaxLines == 3

(***************************************************************************)
(* Integers and small helpers.                                             *)
(***************************************************************************)
Min(a, b) == IF a <= b THEN a ELSE b

Abs(a) == IF a < 0 THEN -a ELSE a

None == "None"

Digits == <<"0", "1", "2", "3", "4", "5", "6", "7", "8", "9">>

IsDigit(c) == \E d \in 1..10 : Digits[d] = c

DigitVal(c) == (CHOOSE d \in 1..10 : Digits[d] = c) - 1

\* Python's s[a:b] for 0 <= a <= b: indices past the end are clamped.
Slice(s, a, b) ==
    IF a >= Len(s) THEN <<>> ELSE SubSeq(s, a + 1, Min(b, Len(s)))

\* Python's s[a:].
SliceFrom(s, a) == Slice(s, a, Len(s))

IsSpace(c) == c \in {" ", "\n"}

RECURSIVE LStrip(_)
LStrip(s) == IF s # <<>> /\ IsSpace(Head(s)) THEN LStrip(Tail(s)) ELSE s

RECURSIVE RStrip(_)
RStrip(s) ==
    IF s # <<>> /\ IsSpace(s[Len(s)]) THEN RStrip(SubSeq(s, 1, Len(s) - 1)) ELSE s

\* str.strip()
Strip(s) == RStrip(LStrip(s))

\* str.startswith
StartsWith(s, p) == Len(s) >= Len(p) /\ SubSeq(s, 1, Len(p)) = p

RECURSIVE DigitsVal(_)
DigitsVal(s) ==
    IF s = <<>> THEN 0 ELSE 10 * DigitsVal(SubSeq(s, 1, Len(s) - 1)) + DigitVal(s[Len(s)])

AllDigits(s) == \A i \in 1..Len(s) : IsDigit(s[i])

Pow10(k) == CASE k = 0 -> 1 [] k = 1 -> 10 [] k = 2 -> 100 [] OTHER -> 1000

(***************************************************************************)
(* float(s) and int(s) on a column slice. The fields of the model carry at *)
(* most three decimals and no exponent; a field that is not a plain        *)
(* decimal number raises ValueError.                                       *)
(***************************************************************************)
Unsigned(s) == IF s # <<>> /\ s[1] \in {"-", "+"} THEN Tail(s) ELSE s

PointAt(s) == IF \E i \in 1..Len(s) : s[i] = "." THEN CHOOSE i \in 1..Len(s) : s[i] = "." ELSE 0

IntPart(s) == IF PointAt(s) = 0 THEN s ELSE SubSeq(s, 1, PointAt(s) - 1)

FracPart(s) == IF PointAt(s) = 0 THEN <<>> ELSE SubSeq(s, PointAt(s) + 1, Len(s))

\* float(s): [ok, val] with val in thousandths; ok = FALSE is ValueError.
ParseFloat(s) ==
    LET b == Strip(s)
        u == Unsigned(b)
        ip == IntPart(u)
        fp == FracPart(u)
        ok == /\ AllDigits(ip) /\ AllDigits(fp)
              /\ Len(ip) + Len(fp) >= 1
              /\ Len(fp) <= 3
        mag == DigitsVal(ip) * 1000 + DigitsVal(fp) * Pow10(3 - Len(fp))
    IN  IF ok
        THEN [ok |-> TRUE, val |-> IF b[1] = "-" THEN -mag ELSE mag]
        ELSE [ok |-> FALSE, val |-> 0]

\* int(s): [ok, val]; ok = FALSE is ValueError.
ParseInt(s) ==
    LET b == Strip(s)
        u == Unsigned(b)
    IN  IF u # <<>> /\ AllDigits(u)
        THEN [ok |-> TRUE, val |-> IF b[1] = "-" THEN -DigitsVal(u) ELSE DigitsVal(u)]
        ELSE [ok |-> FALSE, val |-> 0]

(***************************************************************************)
(* f"{v:8.3f}" of the exact value num/den (den > 0), in thousandths:       *)
(* rounded to the nearest thousandth (a tie to the even one), a minus sign *)
(* for a negative value (also when it rounds to zero), padded with spaces  *)
(* on the left to 8 characters and longer when it does not fit. A value    *)
(* with den = 0 is the mean of no points, nan.                             *)
(***************************************************************************)
RoundHalfEven(num, den) ==
    LET q == num \div den
        r == num % den
    IN  IF 2 * r < den THEN q
        ELSE IF 2 * r > den THEN q + 1
        ELSE IF q % 2 = 0 THEN q ELSE q + 1

RECURSIVE NatDigits(_)
NatDigits(n) ==
    IF n < 10 THEN <<Digits[n + 1]>> ELSE NatDigits(n \div 10) \o <<Digits[(n % 10) + 1]>>

RECURSIVE PadLeft(_, _)
PadLeft(s, w) == IF Len(s) >= w THEN s ELSE PadLeft(<<" ">> \o s, w)

\* f"{v:8.3f}" of nan
NanText == <<" ", " ", " ", " ", " ", "n", "a", "n">>

Format8_3f(num, den) ==
    IF den = 0 THEN NanText ELSE
    LET m == Abs(RoundHalfEven(num, den))
        f == m % 1000
        body == (IF num < 0 THEN <<"-">> ELSE <<>>)
                \o NatDigits(m \div 1000) \o <<".">>
                \o <<Digits[(f \div 100) + 1], Digits[((f \div 10) % 10) + 1], Digits[(f % 10) + 1]>>
    IN  PadLeft(body, 8)

(***************************************************************************)
(* Numpy arrays of points. np.array(coords) of an empty list has one       *)
(* dimension (shape (0,)), of a list of points two (shape (n, 3)); a slice *)
(* [:k] keeps the number of dimensions.                                    *)
(***************************************************************************)
NpArray(rows) == [ndim |-> IF rows = <<>> THEN 1 ELSE 2, rows |-> rows]

\* A slip: a[-k:], the last k rows.
NpLast(a, k) ==
    [ndim |-> a.ndim, rows |-> IF k = 0 THEN <<>> ELSE SliceFrom(a.rows, Len(a.rows) - k)]

\* a[:k]
NpHead(a, k) == [ndim |-> a.ndim, rows |-> Slice(a.rows, 0, k)]

\* len(a)
NpLen(a) == Len(a.rows)

(***************************************************************************)
(* parse_pdb_coords                                                        *)
(***************************************************************************)
\* line.startswith('ATOM') and line[12:16].strip() == 'CA'
IsCALine(line) ==
    /\ StartsWith(line, <<"A", "T", "O", "M">>)
    /\ Strip(Slice(line, 12, 16)) = <<"C", "A">>

\* float(line[30:38]), float(line[38:46]), float(line[46:54])
LineCoord(line) ==
    <<ParseFloat(Slice(line, 30, 38)), ParseFloat(Slice(line, 38, 46)),
      ParseFloat(Slice(line, 46, 54))>>

\* None of the three raised ValueError.
FloatsOk(c) == c[1].ok /\ c[2].ok /\ c[3].ok

\* coord = np.array([x, y, z])
FloatsVal(c) == <<c[1].val, c[2].val, c[3].val>>

CoordOk(line) == FloatsOk(LineCoord(line))

CoordOf(line) == FloatsVal(LineCoord(line))

\* int(line[22:26])
LineResNum(line) == ParseInt(Slice(line, 22, 26))

CALineOk(line) == CoordOk(line) /\ LineResNum(line).ok

RECURSIVE MapCoord(_)
MapCoord(ls) == IF ls = <<>> THEN <<>> ELSE <<CoordOf(Head(ls))>> \o MapCoord(Tail(ls))

RECURSIVE MapResNum(_)
MapResNum(ls) == IF ls = <<>> THEN <<>> ELSE <<LineResNum(Head(ls)).val>> \o MapResNum(Tail(ls))

\* parse_pdb_coords(pdb_file) on the file f = [exists, lines]: the exception it
\* raises ("none" if none) and the pair it returns.
ParsePdbCoords(f) ==
    LET ca == SelectSeq(f.lines, IsCALine)
    IN  IF ~f.exists
        THEN [exc |-> "FileNotFoundError", coords |-> NpArray(<<>>), residues |-> <<>>]
        ELSE IF \E i \in 1..Len(ca) : ~CALineOk(ca[i])
        THEN [exc |-> "ValueError", coords |-> NpArray(<<>>), residues |-> <<>>]
        ELSE [exc |-> "none", coords |-> NpArray(MapCoord(ca)), residues |-> MapResNum(ca)]

(***************************************************************************)
(* Vectors and 3x3 matrices over the integers.                             *)
(***************************************************************************)
Zero3 == <<0, 0, 0>>

Identity3 == <<<<1, 0, 0>>, <<0, 1, 0>>, <<0, 0, 1>>>>

VAdd(a, b) == <<a[1] + b[1], a[2] + b[2], a[3] + b[3]>>

VSub(a, b) == <<a[1] - b[1], a[2] - b[2], a[3] - b[3]>>

VScale(k, a) == <<k * a[1], k * a[2], k * a[3]>>

Dot(a, b) == a[1] * b[1] + a[2] * b[2] + a[3] * b[3]

\* M @ v
MatVec(M, v) == <<Dot(M[1], v), Dot(M[2], v), Dot(M[3], v)>>

Col(M, j) == <<M[1][j], M[2][j], M[3][j]>>

\* M.T
Transpose(M) == <<Col(M, 1), Col(M, 2), Col(M, 3)>>

\* A @ B
MatMul(A, B) ==
    <<<<Dot(A[1], Col(B, 1)), Dot(A[1], Col(B, 2)), Dot(A[1], Col(B, 3))>>,
      <<Dot(A[2], Col(B, 1)), Dot(A[2], Col(B, 2)), Dot(A[2], Col(B, 3))>>,
      <<Dot(A[3], Col(B, 1)), Dot(A[3], Col(B, 2)), Dot(A[3], Col(B, 3))>>>>

\* np.linalg.det
Det(M) ==
      M[1][1] * (M[2][2] * M[3][3] - M[2][3] * M[3][2])
    - M[1][2] * (M[2][1] * M[3][3] - M[2][3] * M[3][1])
    + M[1][3] * (M[2][1] * M[3][2] - M[2][2] * M[3][1])

RECURSIVE VSum(_)
VSum(ps) == IF ps = <<>> THEN Zero3 ELSE VAdd(Head(ps), VSum(Tail(ps)))

\* The orthogonal 3x3 matrices with integer entries: one entry of +1 or -1 in
\* each row and each column, that is a permutation p of the columns and a sign
\* s for each row. There are 48 of them, numbered here.
PermList == <<<<1, 2, 3>>, <<1, 3, 2>>, <<2, 1, 3>>, <<2, 3, 1>>, <<3, 1, 2>>, <<3, 2, 1>>>>

SignList == <<<<1, 1, 1>>, <<1, 1, -1>>, <<1, -1, 1>>, <<1, -1, -1>>,
              <<-1, 1, 1>>, <<-1, 1, -1>>, <<-1, -1, 1>>, <<-1, -1, -1>>>>

SignedPerm(p, s) ==
    <<<<IF p[1] = 1 THEN s[1] ELSE 0, IF p[1] = 2 THEN s[1] ELSE 0, IF p[1] = 3 THEN s[1] ELSE 0>>,
      <<IF p[2] = 1 THEN s[2] ELSE 0, IF p[2] = 2 THEN s[2] ELSE 0, IF p[2] = 3 THEN s[2] ELSE 0>>,
      <<IF p[3] = 1 THEN s[3] ELSE 0, IF p[3] = 2 THEN s[3] ELSE 0, IF p[3] = 3 THEN s[3] ELSE 0>>>>

OrthIndex == 1..(Len(PermList) * Len(SignList))

Orthogonal3 ==
    [k \in OrthIndex |->
        SignedPerm(PermList[((k - 1) \div Len(SignList)) + 1], SignList[((k - 1) % Len(SignList)) + 1])]

(***************************************************************************)
(* kabsch_alignment                                                        *)
(***************************************************************************)
\* n * (ps[k] - mean(ps)) for every k, n = Len(ps): the centred points, scaled by n.
RECURSIVE CenteredFrom(_, _, _)
CenteredFrom(ps, n, total) ==
    IF ps = <<>> THEN <<>>
    ELSE <<VSub(VScale(n, Head(ps)), total)>> \o CenteredFrom(Tail(ps), n, total)

Centered(ps) == CenteredFrom(ps, Len(ps), VSum(ps))

\* sum over k of a[k][i] * b[k][j]
RECURSIVE CrossSum(_, _, _, _)
CrossSum(a, b, i, j) ==
    IF a = <<>> THEN 0 ELSE Head(a)[i] * Head(b)[j] + CrossSum(Tail(a), Tail(b), i, j)

\* H = P_centered.T @ Q_centered, scaled by n * n
CrossCovariance(pc_, qc_) ==
    <<<<CrossSum(pc_, qc_, 1, 1), CrossSum(pc_, qc_, 1, 2), CrossSum(pc_, qc_, 1, 3)>>,
      <<CrossSum(pc_, qc_, 2, 1), CrossSum(pc_, qc_, 2, 2), CrossSum(pc_, qc_, 2, 3)>>,
      <<CrossSum(pc_, qc_, 3, 1), CrossSum(pc_, qc_, 3, 2), CrossSum(pc_, qc_, 3, 3)>>>>

Zero33 == <<Zero3, Zero3, Zero3>>

\* Entry (i, j) of U.T @ H @ Vt.T
SingularEntry(H, U, Vt, i, j) == Dot(Col(U, i), MatVec(H, Vt[j]))

\* U.T @ H @ Vt.T is diagonal, with singular values that are not negative, in
\* descending order: H = U @ diag(S) @ Vt. (Every pair factors the zero matrix.)
IsSvd(H, U, Vt) ==
    \/ H = Zero33
    \/ /\ \A i, j \in 1..3 : i # j => SingularEntry(H, U, Vt, i, j) = 0
       /\ SingularEntry(H, U, Vt, 1, 1) >= SingularEntry(H, U, Vt, 2, 2)
       /\ SingularEntry(H, U, Vt, 2, 2) >= SingularEntry(H, U, Vt, 3, 3)
       /\ SingularEntry(H, U, Vt, 3, 3) >= 0

\* The index of the identity among the orthogonal matrices.
IdentityIndex == CHOOSE k \in OrthIndex : Orthogonal3[k] = Identity3

\* A slip: any factorisation of the zero matrix may come back.
SvdAnyFactors(H) == {ij \in OrthIndex \X OrthIndex : IsSvd(H, Orthogonal3[ij[1]], Orthogonal3[ij[2]])}

\* np.linalg.svd(H); <<i, j>> stands for U = Orthogonal3[i] and Vt = Orthogonal3[j].
\* Of the zero matrix LAPACK's gesdd, which numpy calls, returns U = Vt = I: the
\* Householder reflectors of a zero matrix are identities and no singular value
\* is negative, so nothing is swapped and no sign is changed. Of any other H:
\* every factorisation the contract allows, among the orthogonal matrices with
\* integer entries.
Svd(H) ==
    IF H = Zero33
    THEN {<<IdentityIndex, IdentityIndex>>}
    ELSE {ij \in OrthIndex \X OrthIndex : IsSvd(H, Orthogonal3[ij[1]], Orthogonal3[ij[2]])}

Factors(ij) == [U |-> Orthogonal3[ij[1]], Vt |-> Orthogonal3[ij[2]]]

\* Vt[-1, :] *= -1
NegateLastRow(Vt) == <<Vt[1], Vt[2], VScale(-1, Vt[3])>>

\* R = Vt.T @ U.T
Candidate(uv) == MatMul(Transpose(uv.Vt), Transpose(uv.U))

\* A slip: the reflection is not corrected.
RotationUncorrected(uv) == Candidate(uv)

\* if np.linalg.det(R) < 0: Vt[-1, :] *= -1; R = Vt.T @ U.T
Rotation(uv) ==
    IF Det(Candidate(uv)) < 0
    THEN MatMul(Transpose(NegateLastRow(uv.Vt)), Transpose(uv.U))
    ELSE Candidate(uv)

\* Rotation, tabulated over the factorisations.
RotationOf == [i \in OrthIndex |-> [j \in OrthIndex |-> Rotation(Factors(<<i, j>>))]]

\* t = centroid_Q - R @ centroid_P, as [num, den]: num / den with den = n
Translation(Rm, P, Q) ==
    [num |-> VSub(VSum(Q), MatVec(Rm, VSum(P))), den |-> Len(P)]

\* A slip: only an empty P makes the solver fail.
KabschExcMobileOnly(P, Q) ==
    IF P.ndim = 1 THEN "LinAlgError"
    ELSE IF NpLen(P) # NpLen(Q) THEN "ValueError"
    ELSE "none"

\* The exception kabsch_alignment(P, Q) raises on the numpy arrays P and Q, "none"
\* if none: an empty list of points is a one-dimensional array, H = P_centered.T @
\* Q_centered then has fewer than two dimensions, and np.linalg.svd raises
\* LinAlgError; two-dimensional arrays of different lengths cannot be multiplied.
KabschExc(P, Q) ==
    IF P.ndim = 1 \/ Q.ndim = 1 THEN "LinAlgError"
    ELSE IF NpLen(P) # NpLen(Q) THEN "ValueError"
    ELSE "none"

\* H of kabsch_alignment(P, Q), scaled by n * n
KabschH(P, Q) == CrossCovariance(Centered(P.rows), Centered(Q.rows))

\* kabsch_alignment(P, Q) when it raises nothing: every (svd, R, t) it can reach.
KabschAlignment(P, Q) ==
    {[svd |-> Factors(ij), R |-> RotationOf[ij[1]][ij[2]],
      t |-> Translation(RotationOf[ij[1]][ij[2]], P.rows, Q.rows)] : ij \in Svd(KabschH(P, Q))}

\* The pairs (R, t) kabsch_alignment(P, Q) can return.
KabschReturns(P, Q) ==
    {[R |-> Rm, t |-> Translation(Rm, P.rows, Q.rows)] :
        Rm \in {RotationOf[ij[1]][ij[2]] : ij \in Svd(KabschH(P, Q))}}

(***************************************************************************)
(* The RMSD values of align_structures, and their text.                    *)
(***************************************************************************)
SqNorm(a) == Dot(a, a)

RECURSIVE SumSqDiff(_, _)
SumSqDiff(ps, qs) ==
    IF ps = <<>> THEN 0 ELSE SqNorm(VSub(Head(ps), Head(qs))) + SumSqDiff(Tail(ps), Tail(qs))

\* rmsd_before = np.sqrt(np.mean(np.sum((mobile_coords - ref_coords)**2, axis=1)))
RmsdBefore(P, Q) == [num |-> SumSqDiff(P.rows, Q.rows), den |-> NpLen(P)]

\* n * ((R @ p) + t) for every point p, with t = tr.num / tr.den and n = tr.den
RECURSIVE AlignedTimesDen(_, _, _)
AlignedTimesDen(ps, Rm, tr) ==
    IF ps = <<>> THEN <<>>
    ELSE <<VAdd(VScale(tr.den, MatVec(Rm, Head(ps))), tr.num)>> \o AlignedTimesDen(Tail(ps), Rm, tr)

RECURSIVE ScaleAll(_, _)
ScaleAll(k, ps) == IF ps = <<>> THEN <<>> ELSE <<VScale(k, Head(ps))>> \o ScaleAll(k, Tail(ps))

\* A slip: the mobile points are compared as they were, the transform not applied.
RmsdAfterUnmoved(Rm, tr, P, Q) ==
    [num |-> SumSqDiff(ScaleAll(tr.den, P.rows), ScaleAll(tr.den, Q.rows)),
     den |-> NpLen(P) * tr.den * tr.den]

\* aligned_coords = (R @ mobile_coords.T).T + t; rmsd_after as rmsd_before, of
\* aligned_coords - ref_coords
RmsdAfter(Rm, tr, P, Q) ==
    [num |-> SumSqDiff(AlignedTimesDen(P.rows, Rm, tr), ScaleAll(tr.den, Q.rows)),
     den |-> NpLen(P) * tr.den * tr.den]

\* sqrt(num / den) >= r - 1/2
AtLeastHalfBelow(r, num, den) == r = 0 \/ (2 * r - 1) * (2 * r - 1) * den <= 4 * num

\* A power of two h with sqrt(num / den) < h - 1/2.
RECURSIVE SqrtBound(_, _, _)
SqrtBound(h, num, den) ==
    IF AtLeastHalfBelow(h, num, den) THEN SqrtBound(2 * h, num, den) ELSE h

\* The r in lo..(hi - 1) nearest to sqrt(num / den), by bisection.
RECURSIVE RoundSqrtIn(_, _, _, _)
RoundSqrtIn(lo, hi, num, den) ==
    IF hi - lo <= 1 THEN lo
    ELSE IF AtLeastHalfBelow((lo + hi) \div 2, num, den)
    THEN RoundSqrtIn((lo + hi) \div 2, hi, num, den)
    ELSE RoundSqrtIn(lo, (lo + hi) \div 2, num, den)

\* f"{rmsd:.3f}" of rmsd = sqrt(num / den), in thousandths; -1 stands for "nan",
\* the mean of no points.
FormatRmsd(x) ==
    IF x.den = 0 THEN -1 ELSE RoundSqrtIn(0, SqrtBound(1, x.num, x.den), x.num, x.den)

(***************************************************************************)
(* apply_transformation                                                    *)
(***************************************************************************)
\* new_coord = R @ coord + t, times t's denominator
NewCoordNum(coord, Rm, tr) == VAdd(VScale(tr.den, MatVec(Rm, coord)), tr.num)

\* new_line = line[:30] + f"{new_coord[0]:8.3f}" + f"{new_coord[1]:8.3f}"
\*            + f"{new_coord[2]:8.3f}" + line[54:]
NewLine(line, coord, Rm, tr) ==
    LET c == NewCoordNum(coord, Rm, tr)
    IN  Slice(line, 0, 30) \o Format8_3f(c[1], tr.den) \o Format8_3f(c[2], tr.den)
        \o Format8_3f(c[3], tr.den) \o SliceFrom(line, 54)

\* line.startswith('ATOM')
IsAtomLine(line) == StartsWith(line, <<"A", "T", "O", "M">>)

\* The loop over the lines: the exception it raises ("none" if none) and the lines
\* written to the output file before it.
RECURSIVE WriteLines(_, _, _)
WriteLines(lines, Rm, tr) ==
    IF lines = <<>> THEN [exc |-> "none", out |-> <<>>]
    ELSE IF ~IsAtomLine(Head(lines))
    THEN LET rest == WriteLines(Tail(lines), Rm, tr)
         IN  [exc |-> rest.exc, out |-> <<Head(lines)>> \o rest.out]
    ELSE LET c == LineCoord(Head(lines))
         IN  IF ~FloatsOk(c) THEN [exc |-> "ValueError", out |-> <<>>]
             ELSE LET rest == WriteLines(Tail(lines), Rm, tr)
                  IN  [exc |-> rest.exc,
                       out |-> <<NewLine(Head(lines), FloatsVal(c), Rm, tr)>> \o rest.out]

\* apply_transformation(pdb_file, output_file, R, t) in the file system f: the
\* exception it raises and the file system it leaves. The input is read whole
\* before the output is opened for writing.
ApplyTransformation(f, pdb_file, output_file, Rm, tr) ==
    IF ~f[pdb_file].exists THEN [exc |-> "FileNotFoundError", fs |-> f]
    ELSE LET w == WriteLines(f[pdb_file].lines, Rm, tr)
         IN  [exc |-> w.exc,
              fs |-> [f EXCEPT ![output_file] = [exists |-> TRUE, lines |-> w.out]]]

(***************************************************************************)
(* PDB text of the model's inputs. An atom record has the record name in   *)
(* columns 0-5, the serial in 6-10, the atom name in 12-15, the alternate  *)
(* location in 16, the residue name in 17-19, the chain in 21, the residue *)
(* number in 22-25, x, y, z in 30-53, the occupancy in 54-59, the          *)
(* temperature factor in 60-65 and the element in 76-77.                   *)
(***************************************************************************)
RECURSIVE Spaces(_)
Spaces(n) == IF n = 0 THEN <<>> ELSE <<" ">> \o Spaces(n - 1)

RecATOM == <<"A", "T", "O", "M", " ", " ">>

RecHETATM == <<"H", "E", "T", "A", "T", "M">>

NameCA == <<" ", "C", "A", " ">>

NameN == <<" ", "N", " ", " ">>

NameCB == <<" ", "C", "B", " ">>

ResALA == <<"A", "L", "A">>

ResGLY == <<"G", "L", "Y">>

\* occupancy, temperature factor and element of a record: columns 54 to the end
TailOf(occ, temp, elem) == occ \o temp \o Spaces(10) \o elem \o Spaces(2) \o <<"\n">>

TailC == TailOf(<<" ", " ", "1", ".", "0", "0">>, <<" ", "2", "0", ".", "0", "0">>, <<" ", "C">>)

TailN == TailOf(<<" ", " ", "0", ".", "5", "0">>, <<" ", "3", "5", ".", "5", "0">>, <<" ", "N">>)

\* The three coordinate columns of the point v, in thousandths.
CoordText(v) == Format8_3f(v[1], 1) \o Format8_3f(v[2], 1) \o Format8_3f(v[3], 1)

\* A coordinate field that float() rejects.
BadField == <<" ", " ", " ", " ", " ", "N", "/", "A">>

\* A record with record name rec, atom name, alternate location, residue name and
\* number, the 24 coordinate characters xyz and the tail.
Record(rec, name, alt, res, resnum, xyz, tail) ==
    rec \o PadLeft(NatDigits(resnum), 5) \o <<" ">> \o name \o <<alt>> \o res \o <<" ", "A">>
    \o PadLeft(NatDigits(resnum), 4) \o Spaces(4) \o xyz \o tail

\* A line that is no atom record.
RemarkLine == <<"R", "E", "M", "A", "R", "K", " ", "x", "\n">>

TerLine == <<"T", "E", "R", "\n">>

(***************************************************************************)
(* Paths and the file system.                                              *)
(***************************************************************************)
PathA == [base |-> "a", ext |-> ".pdb"]

PathB == [base |-> "b", ext |-> ".pdb"]

PathOut == [base |-> "out", ext |-> ".pdb"]

\* base_name = os.path.splitext(mobile_pdb)[0]; output_pdb = f"{base_name}_aligned.pdb"
DerivedOutput(mobile_pdb) == [base |-> mobile_pdb.base \o "_aligned", ext |-> ".pdb"]

PathAAligned == DerivedOutput(PathA)

Paths == {PathA, PathB, PathOut, PathAAligned}

NoFile == [exists |-> FALSE, lines |-> <<>>]

File(lines) == [exists |-> TRUE, lines |-> lines]

\* What a file named as the output holds before the run.
OldOutput == File(<<RemarkLine>>)

\* The files of at most n lines over the lines of the set alphabet.
FilesOver(alphabet, n) == {File(ls) : ls \in UNION {[1..k -> alphabet] : k \in 0..n}}

(***************************************************************************)
(* The inputs of the orchestrator's runs: the reference atoms lie on one   *)
(* axis, so that the cross-covariance has a factorisation among the        *)
(* orthogonal matrices with integer entries.                               *)
(***************************************************************************)
MobileCA1 == Record(RecATOM, NameCA, " ", ResALA, 1, CoordText(<<100, 0, 0>>), TailC)

MobileCA2 == Record(RecATOM, NameCA, " ", ResGLY, 2, CoordText(<<300, 0, 0>>), TailC)

MobileN3 == Record(RecATOM, NameN, " ", ResGLY, 3, CoordText(<<0, 200, -100>>), TailN)

\* A CA record and a record of another atom whose y field is no number.
MobileBadCA == Record(RecATOM, NameCA, " ", ResALA, 4, Format8_3f(0, 1) \o BadField \o Format8_3f(0, 1), TailC)

MobileBadN == Record(RecATOM, NameN, " ", ResALA, 4, Format8_3f(0, 1) \o BadField \o Format8_3f(0, 1), TailN)

\* A hetero atom of the mobile structure (a calcium ion).
MobileHet == Record(RecHETATM, NameCA, " ", ResGLY, 9, CoordText(<<500, 0, 0>>), TailC)

RefCA1 == Record(RecATOM, NameCA, " ", ResALA, 1, CoordText(<<0, 0, 0>>), TailC)

RefCA2 == Record(RecATOM, NameCA, " ", ResGLY, 2, CoordText(<<-200, 0, 0>>), TailC)

MobileLines == {MobileCA1, MobileCA2, MobileN3}

\* Representative files: no file, two atoms of one residue, no CA atom, a
\* malformed CA record, a malformed record of another atom.
SomeMobileFiles ==
    {NoFile, File(<<MobileCA1, MobileN3>>), File(<<MobileN3>>), File(<<MobileBadCA>>),
     File(<<MobileCA1, MobileBadN, MobileCA2>>), File(<<MobileCA1, MobileHet>>)}

SomeRefFiles == {NoFile, File(<<RefCA1>>), File(<<>>)}

RefLines == {RefCA1, RefCA2}

\* The argument lists: sys.argv[1:] of a script run, or the arguments of a call.
CallArgs == {<<PathA, PathB>>, <<PathA, PathAAligned>>, <<PathA, PathB, PathOut>>}

ScriptArgs == CallArgs \cup {<<PathA>>}

\* The file system with mobile file m at a.pdb and reference file r at the path
\* the arguments name.
FileSystem(args, m, r) ==
    [p \in Paths |->
        IF p = PathA THEN m
        ELSE IF Len(args) >= 2 /\ p = args[2] THEN r
        ELSE IF p = PathOut THEN OldOutput
        ELSE NoFile]

(***************************************************************************)
(* State before anything ran.                                              *)
(***************************************************************************)
NoArray == [ndim |-> 0, rows |-> <<>>]

NoSvd == [U |-> <<>>, Vt |-> <<>>]

NoVector == [num |-> <<>>, den |-> 0]

NoRmsd == [num |-> 0, den |-> 0]

Fresh ==
    /\ output_pdb = None
    /\ mobile_coords = NoArray /\ mobile_res = <<>>
    /\ ref_coords = NoArray /\ ref_res = <<>>
    /\ svd = NoSvd /\ R = <<>> /\ t = NoVector
    /\ rmsd_before = NoRmsd /\ rmsd_after = NoRmsd
    /\ stdout = <<>> /\ exc = "none" /\ ret = None /\ proc = "running"

\* A call of align_structures by an importing caller, over every pair of files;
\* or a call or a run of the script, over every argument list and representative
\* files.
Init ==
    /\ pc = "start"
    /\ Fresh
    /\ \/ /\ entry = "lib"
          /\ argv = <<PathA, PathB>>
          /\ \E m \in FilesOver(MobileLines, MaxMobileLines) \cup {NoFile},
                r \in FilesOver(RefLines, MaxRefLines) \cup {NoFile} :
                 fs = FileSystem(argv, m, r)
       \/ /\ \/ entry = "lib" /\ argv \in CallArgs
             \/ entry = "cli" /\ argv \in ScriptArgs
          /\ \E m \in SomeMobileFiles, r \in SomeRefFiles : fs = FileSystem(argv, m, r)

(***************************************************************************)
(* What is printed: a message is [k, v], the kind and the values shown.    *)
(***************************************************************************)
Msg(k, v) == [k |-> k, v |-> v]

Printed(k) == \E i \in 1..Len(stdout) : stdout[i].k = k

(***************************************************************************)
(* The command-line entry point (__main__).                                *)
(***************************************************************************)
\* if len(sys.argv) < 3: print usage; sys.exit(1)
MainUsage ==
    /\ pc = "start" /\ entry = "cli"
    /\ Len(argv) < 2
    /\ stdout' = stdout \o <<Msg("usage", <<>>)>>
    /\ proc' = "exit1"
    /\ pc' = "exited"
    /\ UNCHANGED <<entry, argv, fs, output_pdb, mobile_coords, mobile_res, ref_coords,
                   ref_res, svd, R, t, rmsd_before, rmsd_after, exc, ret>>

\* if not os.path.exists(mobile): print; sys.exit(1)
MainMobileMissing ==
    /\ pc = "start" /\ entry = "cli"
    /\ Len(argv) >= 2
    /\ ~fs[argv[1]].exists
    /\ stdout' = stdout \o <<Msg("mobile_not_found", <<>>)>>
    /\ proc' = "exit1"
    /\ pc' = "exited"
    /\ UNCHANGED <<entry, argv, fs, output_pdb, mobile_coords, mobile_res, ref_coords,
                   ref_res, svd, R, t, rmsd_before, rmsd_after, exc, ret>>

\* if not os.path.exists(reference): print; sys.exit(1)
MainReferenceMissing ==
    /\ pc = "start" /\ entry = "cli"
    /\ Len(argv) >= 2
    /\ fs[argv[1]].exists
    /\ ~fs[argv[2]].exists
    /\ stdout' = stdout \o <<Msg("reference_not_found", <<>>)>>
    /\ proc' = "exit1"
    /\ pc' = "exited"
    /\ UNCHANGED <<entry, argv, fs, output_pdb, mobile_coords, mobile_res, ref_coords,
                   ref_res, svd, R, t, rmsd_before, rmsd_after, exc, ret>>

\* aligned_file = align_structures(mobile, reference, output)
MainCall ==
    /\ pc = "start" /\ entry = "cli"
    /\ Len(argv) >= 2
    /\ fs[argv[1]].exists
    /\ fs[argv[2]].exists
    /\ pc' = "align"
    /\ UNCHANGED <<entry, argv, fs, output_pdb, mobile_coords, mobile_res, ref_coords,
                   ref_res, svd, R, t, rmsd_before, rmsd_after, stdout, exc, ret, proc>>

\* align_structures returned: print(f"Use the aligned structure ..."), and the
\* script ends.
MainDone ==
    /\ pc = "returned" /\ entry = "cli"
    /\ stdout' = stdout \o <<Msg("use_aligned", <<>>)>>
    /\ proc' = "exit0"
    /\ pc' = "exited"
    /\ UNCHANGED <<entry, argv, fs, output_pdb, mobile_coords, mobile_res, ref_coords,
                   ref_res, svd, R, t, rmsd_before, rmsd_after, exc, ret>>

\* An exception left align_structures: the script has no handler, the interpreter
\* prints the traceback and the process ends with status 1.
MainUncaught ==
    /\ pc = "raised" /\ entry = "cli"
    /\ stdout' = stdout \o <<Msg("traceback", <<>>)>>
    /\ proc' = "exit1"
    /\ pc' = "exited"
    /\ UNCHANGED <<entry, argv, fs, output_pdb, mobile_coords, mobile_res, ref_coords,
                   ref_res, svd, R, t, rmsd_before, rmsd_after, exc, ret>>

\* An importing caller calls align_structures(mobile_pdb, reference_pdb, output_pdb).
LibCall ==
    /\ pc = "start" /\ entry = "lib"
    /\ pc' = "align"
    /\ UNCHANGED <<entry, argv, fs, output_pdb, mobile_coords, mobile_res, ref_coords,
                   ref_res, svd, R, t, rmsd_before, rmsd_after, stdout, exc, ret, proc>>

(***************************************************************************)
(* align_structures, step by step.                                         *)
(***************************************************************************)
mobile_pdb == argv[1]

reference_pdb == argv[2]

\* A slip: the core ends the process on an error.
RaiseExit(kind) == exc' = kind /\ pc' = "exited" /\ proc' = "exit1"

\* The exception kind leaves align_structures, to its caller.
Raise(kind) == exc' = kind /\ pc' = "raised" /\ proc' = proc

\* Lines 91-98: the output path, and the first prints.
AlignBegin ==
    /\ pc = "align"
    /\ output_pdb' = IF Len(argv) >= 3 THEN argv[3] ELSE DerivedOutput(mobile_pdb)
    /\ stdout' = stdout \o <<Msg("aligning", <<mobile_pdb, reference_pdb, output_pdb'>>)>>
    /\ pc' = "extract_mobile"
    /\ UNCHANGED <<entry, argv, fs, mobile_coords, mobile_res, ref_coords,
                   ref_res, svd, R, t, rmsd_before, rmsd_after, exc, ret, proc>>

\* mobile_coords, mobile_res = parse_pdb_coords(mobile_pdb)
ExtractMobile ==
    /\ pc = "extract_mobile"
    /\ LET got == ParsePdbCoords(fs[mobile_pdb])
       IN  IF got.exc # "none"
           THEN Raise(got.exc) /\ UNCHANGED <<mobile_coords, mobile_res>>
           ELSE /\ mobile_coords' = got.coords
                /\ mobile_res' = got.residues
                /\ pc' = "extract_reference"
                /\ UNCHANGED <<exc, proc>>
    /\ UNCHANGED <<entry, argv, fs, output_pdb, ref_coords,
                   ref_res, svd, R, t, rmsd_before, rmsd_after, stdout, ret>>

\* ref_coords, ref_res = parse_pdb_coords(reference_pdb)
ExtractReference ==
    /\ pc = "extract_reference"
    /\ LET got == ParsePdbCoords(fs[reference_pdb])
       IN  IF got.exc # "none"
           THEN Raise(got.exc) /\ UNCHANGED <<ref_coords, ref_res>>
           ELSE /\ ref_coords' = got.coords
                /\ ref_res' = got.residues
                /\ pc' = "reconcile"
                /\ UNCHANGED <<exc, proc>>
    /\ UNCHANGED <<entry, argv, fs, output_pdb, mobile_coords, mobile_res,
                   svd, R, t, rmsd_before, rmsd_after, stdout, ret>>

\* A slip: the arrays are truncated and nothing is said.
ReconcileQuiet ==
    /\ pc = "reconcile"
    /\ LET m == NpLen(mobile_coords)
           r == NpLen(ref_coords)
       IN  /\ mobile_coords' = NpHead(mobile_coords, Min(m, r))
           /\ ref_coords' = NpHead(ref_coords, Min(m, r))
           /\ stdout' = stdout \o <<Msg("structure_info", <<m, r>>)>>
    /\ pc' = "solve"
    /\ UNCHANGED <<entry, argv, fs, output_pdb, mobile_res,
                   ref_res, svd, R, t, rmsd_before, rmsd_after, exc, ret, proc>>

\* Lines 104-115: the counts are printed; when they differ, the warning, the
\* truncation of both arrays to the shorter length, and its print.
Reconcile ==
    /\ pc = "reconcile"
    /\ LET m == NpLen(mobile_coords)
           r == NpLen(ref_coords)
           min_len == Min(m, r)
           info == <<Msg("structure_info", <<m, r>>)>>
       IN  IF m # r
           THEN /\ mobile_coords' = NpHead(mobile_coords, min_len)
                /\ ref_coords' = NpHead(ref_coords, min_len)
                /\ stdout' = stdout \o info
                             \o <<Msg("warning_different", <<>>), Msg("using_first", <<min_len>>)>>
           ELSE /\ stdout' = stdout \o info
                /\ UNCHANGED <<mobile_coords, ref_coords>>
    /\ pc' = "solve"
    /\ UNCHANGED <<entry, argv, fs, output_pdb, mobile_res,
                   ref_res, svd, R, t, rmsd_before, rmsd_after, exc, ret, proc>>

\* R, t = kabsch_alignment(mobile_coords, ref_coords)
Solve ==
    /\ pc = "solve"
    /\ IF KabschExc(mobile_coords, ref_coords) # "none"
       THEN Raise(KabschExc(mobile_coords, ref_coords)) /\ UNCHANGED <<R, t>>
       ELSE /\ \E res \in KabschReturns(mobile_coords, ref_coords) :
                  R' = res.R /\ t' = res.t
            /\ pc' = "evaluate"
            /\ UNCHANGED <<exc, proc>>
    /\ UNCHANGED <<entry, argv, fs, output_pdb, mobile_coords, mobile_res, ref_coords,
                   ref_res, svd, rmsd_before, rmsd_after, stdout, ret>>

\* Lines 120-132: the two RMSD values, and the prints of the results. The digits
\* of the printed improvement are not modelled.
Evaluate ==
    /\ pc = "evaluate"
    /\ rmsd_before' = RmsdBefore(mobile_coords, ref_coords)
    /\ rmsd_after' = RmsdAfter(R, t, mobile_coords, ref_coords)
    /\ stdout' = stdout \o <<Msg("rmsd_before", <<FormatRmsd(rmsd_before')>>),
                             Msg("rmsd_after", <<FormatRmsd(rmsd_after')>>),
                             Msg("improvement", <<>>)>>
    /\ pc' = "apply"
    /\ UNCHANGED <<entry, argv, fs, output_pdb, mobile_coords, mobile_res, ref_coords,
                   ref_res, svd, R, t, exc, ret, proc>>

\* apply_transformation(mobile_pdb, output_pdb, R, t)
Apply ==
    /\ pc = "apply"
    /\ LET done == ApplyTransformation(fs, mobile_pdb, output_pdb, R, t)
       IN  /\ fs' = done.fs
           /\ IF done.exc # "none"
              THEN Raise(done.exc)
              ELSE pc' = "save" /\ UNCHANGED <<exc, proc>>
    /\ UNCHANGED <<entry, argv, output_pdb, mobile_coords, mobile_res, ref_coords,
                   ref_res, svd, R, t, rmsd_before, rmsd_after, stdout, ret>>

\* print(f"Aligned structure saved: {output_pdb}"); return output_pdb
Return ==
    /\ pc = "save"
    /\ stdout' = stdout \o <<Msg("saved", <<output_pdb>>)>>
    /\ ret' = output_pdb
    /\ pc' = "returned"
    /\ UNCHANGED <<entry, argv, fs, output_pdb, mobile_coords, mobile_res, ref_coords,
                   ref_res, svd, R, t, rmsd_before, rmsd_after, exc, proc>>

Next ==
    \/ MainUsage \/ MainMobileMissing \/ MainReferenceMissing \/ MainCall
    \/ MainDone \/ MainUncaught \/ LibCall
    \/ AlignBegin \/ ExtractMobile \/ ExtractReference \/ Reconcile
    \/ Solve \/ Evaluate \/ Apply \/ Return

Spec == Init /\ [][Next]_vars

(***************************************************************************)
(* parse_pdb_coords alone, over every file of at most MaxLines lines.      *)
(***************************************************************************)
\* Residue 5 with its CA atom at two alternate locations, and its N atom.
ParseCA5A == Record(RecATOM, NameCA, "A", ResALA, 5, CoordText(<<1000, 0, 0>>), TailC)

ParseCA5B == Record(RecATOM, NameCA, "B", ResALA, 5, CoordText(<<1100, 0, 0>>), TailC)

ParseN5 == Record(RecATOM, NameN, " ", ResALA, 5, CoordText(<<0, 1000, 0>>), TailN)

\* Residue 6 with a CA atom, residue 7 without one.
ParseCA6 == Record(RecATOM, NameCA, " ", ResGLY, 6, CoordText(<<4000, 0, 0>>), TailC)

ParseCB7 == Record(RecATOM, NameCB, " ", ResALA, 7, CoordText(<<7000, 0, 0>>), TailC)

\* A hetero atom named CA.
ParseHet8 == Record(RecHETATM, NameCA, " ", ResGLY, 8, CoordText(<<8000, 0, 0>>), TailC)

ParseLines == {ParseCA5A, ParseCA5B, ParseN5, ParseCA6, ParseCB7, ParseHet8}

OnlyFile(f) == [p \in Paths |-> IF p = PathA THEN f ELSE NoFile]

InitParse ==
    /\ pc = "parse"
    /\ entry = "parse_pdb_coords"
    /\ argv = <<PathA>>
    /\ Fresh
    /\ \E f \in FilesOver(ParseLines, MaxLines) : fs = OnlyFile(f)

\* coords, residues = parse_pdb_coords(pdb_file)
ParseFile ==
    /\ pc = "parse"
    /\ LET got == ParsePdbCoords(fs[argv[1]])
       IN  IF got.exc # "none"
           THEN Raise(got.exc) /\ UNCHANGED <<mobile_coords, mobile_res>>
           ELSE /\ mobile_coords' = got.coords
                /\ mobile_res' = got.residues
                /\ pc' = "parsed"
                /\ UNCHANGED <<exc, proc>>
    /\ UNCHANGED <<entry, argv, fs, output_pdb, ref_coords,
                   ref_res, svd, R, t, rmsd_before, rmsd_after, stdout, ret>>

SpecParse == InitParse /\ [][ParseFile]_vars

(***************************************************************************)
(* kabsch_alignment alone: P is one point, two points, or the four corners *)
(* of a tetrahedron centred on the origin; Q is P under an orthogonal map  *)
(* (a rotation or a reflection) and a shift.                               *)
(***************************************************************************)
Tetrahedron(a, b, c) == <<<<a, b, c>>, <<a, -b, -c>>, <<-a, b, -c>>, <<-a, -b, c>>>>

KabschShapes ==
    {<<<<100, 0, 0>>>>,
     <<<<0, 0, 0>>, <<200, 0, 0>>>>,
     Tetrahedron(100, 200, 300),
     Tetrahedron(100, 100, 300)}

KabschShifts == {Zero3, <<1000, -500, 0>>}

RECURSIVE Moved(_, _, _)
Moved(ps, M, shift) ==
    IF ps = <<>> THEN <<>> ELSE <<VAdd(MatVec(M, Head(ps)), shift)>> \o Moved(Tail(ps), M, shift)

InitKabsch ==
    /\ pc = "kabsch"
    /\ entry = "kabsch_alignment"
    /\ argv = <<>>
    /\ fs = OnlyFile(NoFile)
    /\ output_pdb = None
    /\ mobile_res = <<>> /\ ref_res = <<>>
    /\ svd = NoSvd /\ R = <<>> /\ t = NoVector
    /\ rmsd_before = NoRmsd /\ rmsd_after = NoRmsd
    /\ stdout = <<>> /\ exc = "none" /\ ret = None /\ proc = "running"
    /\ \E P \in KabschShapes, k \in OrthIndex, shift \in KabschShifts :
          /\ mobile_coords = NpArray(P)
          /\ ref_coords = NpArray(Moved(P, Orthogonal3[k], shift))

\* R, t = kabsch_alignment(P, Q)
SolvePoints ==
    /\ pc = "kabsch"
    /\ IF KabschExc(mobile_coords, ref_coords) # "none"
       THEN Raise(KabschExc(mobile_coords, ref_coords)) /\ UNCHANGED <<svd, R, t>>
       ELSE /\ \E res \in KabschAlignment(mobile_coords, ref_coords) :
                  svd' = res.svd /\ R' = res.R /\ t' = res.t
            /\ pc' = "solved"
            /\ UNCHANGED <<exc, proc>>
    /\ UNCHANGED <<entry, argv, fs, output_pdb, mobile_coords, mobile_res, ref_coords,
                   ref_res, rmsd_before, rmsd_after, stdout, ret>>

SpecKabsch == InitKabsch /\ [][SolvePoints]_vars

(***************************************************************************)
(* apply_transformation alone, over every file of at most MaxLines lines   *)
(* and a few transforms.                                                   *)
(***************************************************************************)
\* An atom near the ends of what the 8-character columns hold.
ApplyCA == Record(RecATOM, NameCA, " ", ResALA, 1, CoordText(<<-999900, 0, 9999500>>), TailC)

ApplyN == Record(RecATOM, NameN, " ", ResGLY, 2, CoordText(<<1000, 2000, 3000>>), TailN)

ApplyHet == Record(RecHETATM, NameCA, " ", ResGLY, 3, CoordText(<<5000, 0, 0>>), TailC)

ApplyLines == {ApplyCA, ApplyN, ApplyHet, TerLine}

\* The identity, and a quarter turn about z.
ApplyRotations == {Identity3, <<<<0, -1, 0>>, <<1, 0, 0>>, <<0, 0, 1>>>>}

ApplyTranslations ==
    {[num |-> Zero3, den |-> 1], [num |-> <<-1000, 0, 1000>>, den |-> 1], [num |-> <<1, -1, 3>>, den |-> 2]}

InitApply ==
    /\ pc = "apply_alone"
    /\ entry = "apply_transformation"
    /\ argv = <<PathA, PathOut>>
    /\ output_pdb = PathOut
    /\ mobile_coords = NoArray /\ mobile_res = <<>>
    /\ ref_coords = NoArray /\ ref_res = <<>>
    /\ svd = NoSvd
    /\ rmsd_before = NoRmsd /\ rmsd_after = NoRmsd
    /\ stdout = <<>> /\ exc = "none" /\ ret = None /\ proc = "running"
    /\ \E f \in FilesOver(ApplyLines, MaxLines) : fs = OnlyFile(f)
    /\ R \in ApplyRotations
    /\ t \in ApplyTranslations

\* apply_transformation(pdb_file, output_file, R, t)
ApplyFile ==
    /\ pc = "apply_alone"
    /\ LET done == ApplyTransformation(fs, argv[1], output_pdb, R, t)
       IN  /\ fs' = done.fs
           /\ IF done.exc # "none"
              THEN Raise(done.exc)
              ELSE pc' = "applied" /\ UNCHANGED <<exc, proc>>
    /\ UNCHANGED <<entry, argv, output_pdb, mobile_coords, mobile_res, ref_coords,
                   ref_res, svd, R, t, rmsd_before, rmsd_after, stdout, ret>>

SpecApply == InitApply /\ [][ApplyFile]_vars


(***************************************************************************)
(* Properties of the pipeline (Spec).                                      *)
(***************************************************************************)

\* apply_transformation has written the output file and returned.
Applied == pc \in {"save", "returned"} \/ (pc = "exited" /\ proc = "exit0")

\* Both extractions have returned.
BothExtracted == mobile_coords.ndim # 0 /\ ref_coords.ndim # 0

\* The arrays have been reconciled (lines 104-115 are behind).
Reconciled ==
    \/ pc \in {"solve", "evaluate", "apply", "save", "returned"}
    \/ pc \in {"raised", "exited"} /\ BothExtracted

\* The numbers of points the two extractions returned.
MobileCount == Len(mobile_res)

RefCount == Len(ref_res)

HasMsg(k, v) == \E i \in 1..Len(stdout) : stdout[i].k = k /\ stdout[i].v = v

CountMsg(k) == Cardinality({i \in 1..Len(stdout) : stdout[i].k = k})

\* R c + t in thousandths, rounded to the three decimals of the output.
RoundedImage(c) ==
    [k \in 1..3 |-> RoundHalfEven(t.den * Dot(R[k], c) + t.num[k], t.den)]

\* An atom record of a structure file: an ATOM or a HETATM line.
IsAtomRecord(line) == Slice(line, 0, 6) \in {RecATOM, RecHETATM}

\* C1 as stated: once the aligned structure is written, every atom record of the
\* mobile input is in the output with the coordinates R c + t; none is emitted
\* untransformed.
C1_AsStated ==
    Applied =>
        LET inp == fs[mobile_pdb].lines
            out == fs[output_pdb].lines
        IN  /\ Len(out) = Len(inp)
            /\ \A i \in 1..Len(inp) :
                   IsAtomRecord(inp[i]) =>
                       /\ CoordOk(out[i])
                       /\ CoordOf(out[i]) = RoundedImage(CoordOf(inp[i]))

\* C1, the part that holds: the output has one line per line of the mobile
\* input and every ATOM line of the mobile input, CA or not, past the truncation
\* boundary or not, holds the coordinates R c + t of that line.
C1_EveryAtomLineTransformed ==
    Applied =>
        LET inp == fs[mobile_pdb].lines
            out == fs[output_pdb].lines
        IN  /\ fs[output_pdb].exists
            /\ Len(out) = Len(inp)
            /\ \A i \in 1..Len(inp) :
                   IsAtomLine(inp[i]) =>
                       /\ CoordOk(out[i])
                       /\ CoordOf(out[i]) = RoundedImage(CoordOf(inp[i]))

\* The part of C1 that holds happens: two CA atoms and a nitrogen in the mobile input, one point in the
\* reference, so the second CA is past the truncation boundary; both it and the
\* nitrogen are moved.
C1_Witness ==
    /\ pc = "returned"
    /\ MobileCount = 2 /\ NpLen(mobile_coords) = 1
    /\ LET inp == fs[mobile_pdb].lines
           out == fs[output_pdb].lines
       IN  /\ Len(inp) = 3
           /\ \E i \in 1..3 : IsAtomLine(inp[i]) /\ ~IsCALine(inp[i]) /\ out[i] # inp[i]
           /\ IsCALine(inp[3]) /\ out[3] # inp[3]

\* The first n points the extraction of file f returns.
FirstPoints(f, n) == SubSeq(ParsePdbCoords(f).coords.rows, 1, n)

\* C3: with m and r points extracted, both positive, the solver and both RMSD
\* evaluations get the first min(m, r) points of each input, in order, as two
\* arrays of equal length, and no length mismatch error stops the run between
\* the reconciliation and the RMSD evaluations.
C3_TruncateToShorter ==
    (Reconciled /\ MobileCount > 0 /\ RefCount > 0) =>
        LET n == Min(MobileCount, RefCount)
        IN  /\ NpLen(mobile_coords) = n /\ NpLen(ref_coords) = n
            /\ pc \in {"solve", "evaluate", "apply"} =>
                   /\ mobile_coords.rows = FirstPoints(fs[mobile_pdb], n)
                   /\ ref_coords.rows = FirstPoints(fs[reference_pdb], n)
            /\ pc = "solve" => KabschExc(mobile_coords, ref_coords) = "none"
            /\ pc = "apply" =>
                   rmsd_before = RmsdBefore(NpArray(FirstPoints(fs[mobile_pdb], n)),
                                            NpArray(FirstPoints(fs[reference_pdb], n)))
            /\ pc \in {"raised", "exited"} => rmsd_after.den # 0

\* C3 happens: three points against two, the RMSD values computed.
C3_Witness == pc = "apply" /\ MobileCount = 3 /\ RefCount = 2 /\ rmsd_before.den = 2

\* An extraction returned no point.
ZeroExtracted == BothExtracted /\ (MobileCount = 0 \/ RefCount = 0)

\* C4 as stated: a run whose mobile or reference input yields no point fails
\* with EmptyInputError.
C4_AsStated ==
    ZeroExtracted =>
        \/ pc \in {"reconcile", "solve"}
        \/ pc \in {"raised", "exited"} /\ exc = "EmptyInputError"

\* C4: a run whose mobile or reference input yields no point goes no further
\* than the solver, and the error that leaves it is numpy's LinAlgError, raised
\* by the singular value decomposition.
C4_EmptyInputFails ==
    ZeroExtracted =>
        \/ pc \in {"reconcile", "solve"}
        \/ pc \in {"raised", "exited"} /\ exc = "LinAlgError"

\* C4 happens: points in the mobile input, none in the reference.
C4_Witness == pc = "raised" /\ exc = "LinAlgError" /\ MobileCount > 0 /\ RefCount = 0

\* C7: only the command-line entry point ends the process; an error in the core
\* (a missing or unreadable input, a malformed coordinate, a failure of the
\* solver) leaves align_structures as an exception, the process running.
C7_CoreRaises ==
    [][/\ proc' # proc => (entry = "cli" /\ pc \in {"start", "returned", "raised"})
       /\ (pc' = "raised" /\ pc # "raised") =>
              /\ exc' \in {"FileNotFoundError", "ValueError", "LinAlgError"}
              /\ proc' = "running"
       /\ entry = "lib" => proc' = "running"]_vars

\* C7 happens: a caller of the library got the exception of a missing input.
C7_Witness ==
    pc = "raised" /\ entry = "lib" /\ exc = "FileNotFoundError" /\ proc = "running"

\* An extraction has returned no point (an empty list makes a 1-d array).
ZeroAny == mobile_coords.ndim = 1 \/ ref_coords.ndim = 1

\* C8: only apply_transformation writes, a run in which an extraction returned
\* no point never gets to it, and such a run prints no RMSD, returns nothing and
\* leaves every file as it was.
C8_NothingOnEmpty ==
    /\ [][(ZeroAny' \/ pc # "apply") => fs' = fs]_vars
    /\ [](ZeroAny => /\ pc \notin {"evaluate", "apply", "save", "returned"}
                     /\ ~Printed("rmsd_before") /\ ~Printed("rmsd_after")
                     /\ ~Printed("saved")
                     /\ ret = None)

\* C8 happens: neither input has a point, the run failed and the derived output
\* path holds no file.
C8_Witness ==
    /\ pc = "raised" /\ exc = "LinAlgError"
    /\ mobile_coords.ndim = 1 /\ ref_coords.ndim = 1
    /\ output_pdb = DerivedOutput(mobile_pdb)
    /\ ~fs[output_pdb].exists

\* C9: after the reconciliation the counts of both inputs are printed; the
\* warning and the number of points kept are printed if and only if the counts
\* differ.
C9_MismatchReported ==
    Reconciled =>
        /\ HasMsg("structure_info", <<MobileCount, RefCount>>)
        /\ MobileCount # RefCount =>
               /\ HasMsg("warning_different", <<>>)
               /\ HasMsg("using_first", <<Min(MobileCount, RefCount)>>)
        /\ MobileCount = RefCount =>
               ~Printed("warning_different") /\ ~Printed("using_first")

\* C9 happens: a run of three points against two ended and printed the warning.
C9_Witness ==
    /\ pc = "returned" /\ MobileCount = 3 /\ RefCount = 2
    /\ HasMsg("using_first", <<2>>)

\* The transform is in what the run gives back: printed, or returned.
TransformReported ==
    \/ Printed("rotation") /\ Printed("translation")
    \/ {"R", "t"} \subseteq DOMAIN ret

\* One RMSD before and one after are printed.
OneRmsdEach == CountMsg("rmsd_before") = 1 /\ CountMsg("rmsd_after") = 1

\* C10 as stated: a successful run reports the RMSD before, the RMSD after and
\* the transform.
C10_AsStated == pc = "returned" => (OneRmsdEach /\ TransformReported)

RECURSIVE SumSqResidual(_, _, _)
\* Sum over the pairs of |n (R p + t - q)|^2, n the denominator of t.
SumSqResidual(P, Q, i) ==
    IF i = 0 THEN 0
    ELSE LET d == [k \in 1..3 |-> t.den * Dot(R[k], P[i]) + t.num[k] - t.den * Q[i][k]]
         IN  Dot(d, d) + SumSqResidual(P, Q, i - 1)

\* C10: a successful run prints exactly one RMSD before and one RMSD after, both
\* over the same truncated point sets against the same reference, the second
\* under the transform the solver returned; it returns the output path alone,
\* and the transform is neither printed nor returned.
C10_ReportOfRun ==
    pc = "returned" =>
        LET n == NpLen(mobile_coords)
        IN  /\ OneRmsdEach
            /\ n = Min(MobileCount, RefCount) /\ NpLen(ref_coords) = n
            /\ rmsd_before.den = n
            /\ rmsd_before.num = SumSqDiff(mobile_coords.rows, ref_coords.rows)
            /\ rmsd_after.den = n * t.den * t.den
            /\ rmsd_after.num = SumSqResidual(mobile_coords.rows, ref_coords.rows, n)
            /\ HasMsg("rmsd_before", <<FormatRmsd(rmsd_before)>>)
            /\ HasMsg("rmsd_after", <<FormatRmsd(rmsd_after)>>)
            /\ ret = output_pdb
            /\ fs[output_pdb].exists
            /\ ~TransformReported

\* C10 happens: a run with truncation returned, its after-RMSD below its
\* before-RMSD.
C10_Witness ==
    /\ pc = "returned" /\ ret = output_pdb
    /\ MobileCount = 3 /\ RefCount = 2
    /\ rmsd_after.num * rmsd_before.den < rmsd_before.num * rmsd_after.den


(***************************************************************************)
(* Properties of apply_transformation alone (SpecApply).                   *)
(***************************************************************************)

\* The columns of the fields of an atom record other than its coordinates, as
\* Python slices: record type, serial, atom name, alternate location, residue
\* type, chain, residue number, occupancy, temperature factor, element.
OtherFields ==
    {<<0, 6>>, <<6, 11>>, <<12, 16>>, <<16, 17>>, <<17, 20>>, <<21, 22>>, <<22, 26>>,
     <<54, 60>>, <<60, 66>>, <<76, 78>>}

\* C2 as stated: the output has the input's records in the input's order; in
\* every ATOM record each field other than the coordinates is the input's, at
\* the same columns, whatever the magnitude of the new coordinates; every other
\* line is copied unchanged.
C2_AsStated ==
    pc = "applied" =>
        LET inp == fs[argv[1]].lines
            out == fs[output_pdb].lines
        IN  /\ Len(out) = Len(inp)
            /\ \A i \in 1..Len(inp) :
                   IF IsAtomLine(inp[i])
                   THEN \A c \in OtherFields : Slice(out[i], c[1], c[2]) = Slice(inp[i], c[1], c[2])
                   ELSE out[i] = inp[i]

(***************************************************************************)
(* Properties of parse_pdb_coords alone (SpecParse).                       *)
(***************************************************************************)

\* The residue a line belongs to: residue type, chain, residue number and
\* insertion code.
ResidueOf(line) == Slice(line, 17, 27)

\* The residues of the file that have an ATOM record of a CA atom.
ResiduesWithCA(lines) == {ResidueOf(lines[i]) : i \in {j \in 1..Len(lines) : IsCALine(lines[j])}}

\* C5 as stated: parse_pdb_coords returns one point per residue that has a CA
\* atom and as many residue numbers as points; no residue gives two points.
C5_AsStated ==
    pc = "parsed" =>
        /\ Len(mobile_res) = NpLen(mobile_coords)
        /\ NpLen(mobile_coords) = Cardinality(ResiduesWithCA(fs[argv[1]].lines))

(***************************************************************************)
(* Properties of kabsch_alignment alone (SpecKabsch).                      *)
(***************************************************************************)

\* C6: the rotation kabsch_alignment returns has determinant +1 and is
\* orthonormal; when the candidate Vt.T @ U.T has a negative determinant the
\* rotation is recomputed with the last row of Vt negated, and a candidate whose
\* determinant is not negative (zero included) is returned as it is.
C6_ProperRotation ==
    pc = "solved" =>
        /\ Det(R) = 1
        /\ MatMul(R, Transpose(R)) = Identity3
        /\ MatMul(Transpose(R), R) = Identity3
        /\ LET V == MatMul(Transpose(svd.Vt), Transpose(svd.U))
               W == [i \in 1..3 |-> IF i = 3 THEN VScale(-1, svd.Vt[3]) ELSE svd.Vt[i]]
           IN  IF Det(V) < 0
               THEN R = MatMul(Transpose(W), Transpose(svd.U)) /\ R # V
               ELSE R = V

\* C6 happens: Q is a mirror image of four points P, the candidate is a
\* reflection and the rotation returned is not the candidate.
C6_Witness ==
    /\ pc = "solved"
    /\ NpLen(mobile_coords) = 4
    /\ Det(MatMul(Transpose(svd.Vt), Transpose(svd.U))) = -1
    /\ Det(R) = 1


C11_WitnessTurned ==
    /\ pc = "solved"
    /\ NpLen(mobile_coords) = 2
    /\ R # Identity3
    /\ VSum(mobile_coords.rows) # VSum(ref_coords.rows)


\* The call names no output path.
NoOutputGiven == Len(argv) = 2

\* C12 as stated: a run without an output path writes only the derived file
\* <mobile base>_aligned.pdb, only in apply_transformation, after the
\* extractions and the solver, and no step changes the mobile or the reference
\* file, whatever the two input paths are.
C12_AsStated ==
    [][NoOutputGiven =>
          /\ fs' # fs =>
                 /\ pc = "apply" /\ R # <<>>
                 /\ \A p \in Paths \ {DerivedOutput(mobile_pdb)} : fs'[p] = fs[p]
          /\ fs'[mobile_pdb] = fs[mobile_pdb]
          /\ fs'[reference_pdb] = fs[reference_pdb]]_vars

\* C12, the part that holds: only the derived file is written, only in
\* apply_transformation after the solver, and the mobile file is never changed;
\* the reference file is changed only if it is the derived file itself.
C12_DerivedOnly ==
    [][NoOutputGiven =>
          /\ fs' # fs =>
                 /\ pc = "apply" /\ R # <<>>
                 /\ \A p \in Paths \ {DerivedOutput(mobile_pdb)} : fs'[p] = fs[p]
          /\ fs'[mobile_pdb] = fs[mobile_pdb]
          /\ fs'[reference_pdb] # fs[reference_pdb] => reference_pdb = DerivedOutput(mobile_pdb)]_vars

\* The reference was the derived file and the run has replaced its contents.
C12_ReferenceOverwritten ==
    /\ NoOutputGiven /\ pc = "returned"
    /\ reference_pdb = DerivedOutput(mobile_pdb)
    /\ RefCount > 0
    /\ Len(fs[reference_pdb].lines) = Len(fs[mobile_pdb].lines)
    /\ fs[reference_pdb] # fs[mobile_pdb]

====
